---- MODULE Spec2Model ----
(***************************************************************************)
(* Model of src/server.js: the clients table behind one shared sqlite3     *)
(* connection `db`, the PUT /api/v1/clients/:id handler (updateRecord),    *)
(* the GET /api/v1/clients handler (listRecords), and the order in which   *)
(* the connection executes the statements the handlers hand to it.         *)
(*                                                                         *)
(* A statement is one db.get / db.run / db.all call.  The connection runs  *)
(* statements scheduled inside db.serialize one at a time, alone; a        *)
(* statement scheduled outside db.serialize starts at once unless an       *)
(* exclusive statement is running, and statements that run together take   *)
(* effect in any order.                                                    *)
(***************************************************************************)
EXTENDS Integers, Sequences, FiniteSets, TLC

\* ---- bounds ----
MaxPriority == 2      \* largest whole priority a request body carries
MaxFaults == 1        \* statements the store fails in one behaviour

\* ---- values ----
\* Priorities are JS numbers and a JSON body can carry a fraction.  They are
\* counted in halves: Unit is the priority 1, and `priority + 1` adds Unit.
Unit == 2
Lanes == {"backlog", "inProgress", "complete"}
NULL == "NULL"              \* SQL NULL
Undefined == "undefined"    \* a field absent from the JSON body
Ids == {1, 2, 3}            \* ids of the rows of the clients table
MissingId == 99             \* an id no row has
Slots == {1, 2}             \* two requests, one after the other or overlapping

StatusInputs == Lanes \cup {Undefined, "", "urgent"}
PriorityInputs == {Unit * n : n \in (-1)..MaxPriority}     \* whole priorities
NumberInputs == PriorityInputs \cup {Unit \div 2}           \* and the priority 0.5
IdInputs == [nan : {FALSE}, v : Ids \cup {MissingId}] \cup {[nan |-> TRUE, v |-> 0]}

VARIABLES
  clients,   \* the clients table: id -> [status, priority]
  req,       \* request slot -> the request and the handler's progress
  queue,     \* the connection's queue of waiting statements
  running,   \* statements the connection is executing (its `pending` count)
  locked,    \* the connection is executing an exclusive statement
  faults,    \* statements failed so far
  pre,       \* slot -> the table just before the request's first UPDATE ran
  last,      \* the statement executed by the last step
  clients0   \* the table at start

vars == <<clients, req, queue, running, locked, faults, pre, last, clients0>>

\* ---- JavaScript and SQL value semantics ----
\* JS truthiness of body.status: undefined and '' are falsy.
Truthy(status) == status # Undefined /\ status # ""

\* A bound parameter: undefined is left unbound, which SQL reads as NULL.
Bind(status) == IF status = Undefined THEN NULL ELSE status

\* SQL `a = b`: never true when either side is NULL.
SqlEq(a, b) == a # NULL /\ b # NULL /\ a = b

\* isNaN(priority) || priority <= 0, on a number.
validatePriority(priority) == ~(priority <= 0)

\* Variant of the lookup that finds a row for every id.
clientAlwaysExists(id) == id = id

\* The lookup of validateId: SELECT * FROM clients WHERE id = ? finds a row.
clientExists(id) == id \in Ids

\* ---- the SQL statements of the PUT handler ----
\* Variant of the shift with `priority > ?`: the row at the requested priority stays.
ShiftPrioritiesStrict(tbl, status, priority) ==
  [i \in Ids |->
     IF SqlEq(tbl[i].status, Bind(status)) /\ tbl[i].priority > priority
     THEN [tbl[i] EXCEPT !.priority = @ + Unit]
     ELSE tbl[i]]

\* Variant of the shift with `priority <= ?`: the rows below are moved instead.
ShiftPrioritiesBelow(tbl, status, priority) ==
  [i \in Ids |->
     IF SqlEq(tbl[i].status, Bind(status)) /\ tbl[i].priority <= priority
     THEN [tbl[i] EXCEPT !.priority = @ + Unit]
     ELSE tbl[i]]

\* Variant of the shift without `status = ?`: every lane is shifted.
ShiftPrioritiesAllLanes(tbl, status, priority) ==
  [i \in Ids |->
     IF tbl[i].priority >= priority
     THEN [tbl[i] EXCEPT !.priority = @ + Unit]
     ELSE tbl[i]]

\* UPDATE clients SET priority = priority + 1 WHERE status = ? AND priority >= ?
ShiftPriorities(tbl, status, priority) ==
  [i \in Ids |->
     IF SqlEq(tbl[i].status, Bind(status)) /\ tbl[i].priority >= priority
     THEN [tbl[i] EXCEPT !.priority = @ + Unit]
     ELSE tbl[i]]

\* Variant of the target UPDATE that sets the status only.
SetClientKeepPriority(tbl, status, priority, id) ==
  [tbl EXCEPT ![id] = [@ EXCEPT !.status = Bind(status)]]

\* Variant of the target UPDATE that clamps the priority to one past the
\* number of other clients in the lane.
SetClientClamped(tbl, status, priority, id) ==
  LET size == Cardinality({j \in Ids \ {id} : tbl[j].status = Bind(status)})
  IN [tbl EXCEPT ![id] = [status |-> Bind(status),
                          priority |-> IF priority > Unit * (size + 1)
                                       THEN Unit * (size + 1) ELSE priority]]

\* Variant of the target UPDATE that also closes the gap the client leaves in
\* its old lane.
SetClientCompact(tbl, status, priority, id) ==
  [i \in Ids |->
     IF i = id THEN [status |-> Bind(status), priority |-> priority]
     ELSE IF tbl[i].status = tbl[id].status /\ tbl[i].priority > tbl[id].priority
     THEN [tbl[i] EXCEPT !.priority = @ - Unit]
     ELSE tbl[i]]

\* UPDATE clients SET status = ?, priority = ? WHERE id = ?
SetClient(tbl, status, priority, id) ==
  [tbl EXCEPT ![id] = [status |-> Bind(status), priority |-> priority]]

\* Variant of the status-only UPDATE that also ranks the client last in its
\* new lane.
SetStatusAppend(tbl, status, id) ==
  [tbl EXCEPT ![id] =
     [status |-> Bind(status),
      priority |-> Unit * (1 + Cardinality({j \in Ids \ {id} : tbl[j].status = Bind(status)}))]]

\* UPDATE clients SET status = ? WHERE id = ?
SetStatus(tbl, status, id) ==
  [tbl EXCEPT ![id] = [@ EXCEPT !.status = Bind(status)]]

\* ---- the connection's statement scheduler (db.serialize, db.run, db.get, db.all) ----
Stmt(r, kind) == [req |-> r, kind |-> kind]

\* The scheduler state as one value, so that a handler can schedule several
\* statements in one step.
Sched(q, run, lck) == [queue |-> q, running |-> run, locked |-> lck]

\* Variant of Schedule for a connection that starts every statement at once.
ScheduleParallel(s, r, kind, serialize) ==
  [s EXCEPT !.running = @ \cup {Stmt(r, kind)}]

\* A handler hands a statement to the connection.  `serialize` is TRUE inside a
\* db.serialize callback.  The statement waits when something is executing and
\* either it is serialized or an exclusive statement holds the connection;
\* otherwise it starts at once.
Schedule(s, r, kind, serialize) ==
  IF (s.locked \/ serialize) /\ s.running # {}
  THEN [s EXCEPT !.queue = Append(@, [req |-> r, kind |-> kind, exclusive |-> serialize])]
  ELSE [s EXCEPT !.locked = FALSE, !.running = @ \cup {Stmt(r, kind)}]

\* Variant of Process that starts every waiting statement, exclusive or not.
RECURSIVE ProcessAll(_)
ProcessAll(s) ==
  IF s.queue # <<>>
  THEN LET c == Head(s.queue) IN
       ProcessAll(Sched(Tail(s.queue), s.running \cup {Stmt(c.req, c.kind)}, FALSE))
  ELSE s

\* The connection starts waiting statements in queue order: an exclusive one
\* only when nothing is executing, and nothing after it until it has finished.
RECURSIVE Process(_)
Process(s) ==
  IF (~s.locked \/ s.running = {}) /\ s.queue # <<>>
  THEN LET c == Head(s.queue) IN
       IF c.exclusive /\ s.running # {}
       THEN s
       ELSE LET t == Sched(Tail(s.queue), s.running \cup {Stmt(c.req, c.kind)}, c.exclusive)
            IN IF c.exclusive THEN t ELSE Process(t)
  ELSE s

\* A statement has finished: it no longer counts as pending and the queue is
\* processed again.
Complete(r, kind) ==
  Process(Sched(queue, running \ {Stmt(r, kind)}, locked))

\* Request r still has a statement waiting or executing in s.
HasWork(s, r) ==
  \/ \E st \in s.running : st.req = r
  \/ \E k \in 1..Len(s.queue) : s.queue[k].req = r

\* ---- requests ----
IdleReq ==
  [pc |-> "idle", method |-> "none", id |-> [nan |-> FALSE, v |-> 0],
   status |-> Undefined, hasPriority |-> FALSE, priority |-> 0,
   responses |-> <<>>, shift |-> "none", set |-> "none",
   mutated |-> FALSE, overlapped |-> FALSE]

\* Some request is between its arrival and the end of its last statement.
InFlight(r) == req[r].pc \in {"validateId", "statements"}

\* res.status(..).send(..)
Send(rq, response) == [rq EXCEPT !.responses = Append(@, response)]

\* The handler's position once its statements are scheduled in s.
PcIn(s, r) == IF HasWork(s, r) THEN "statements" ELSE "done"

\* JS truthiness of body.priority: undefined and 0 are falsy.
TruthyPriority(rq) == rq.hasPriority /\ rq.priority # 0

\* The initial tables: every client in one of the lanes, ranked within its lane
\* in id order from 1: all three in backlog, two in backlog and one in
\* inProgress, or one in each lane.
DenseTable(lane) ==
  [i \in Ids |-> [status |-> lane[i],
                  priority |-> Unit * Cardinality({j \in Ids : j <= i /\ lane[j] = lane[i]})]]

InitTables ==
  {DenseTable(<<"backlog", "backlog", "backlog">>),
   DenseTable(<<"backlog", "backlog", "inProgress">>),
   DenseTable(<<"backlog", "inProgress", "complete">>)}

Init ==
  /\ clients \in InitTables
  /\ clients0 = clients
  /\ req = [r \in Slots |-> IdleReq]
  /\ queue = <<>>
  /\ running = {}
  /\ locked = FALSE
  /\ faults = 0
  /\ pre = [r \in Slots |-> clients]
  /\ last = [req |-> 0, kind |-> "none", ok |-> TRUE]

SetSched(s) ==
  /\ queue' = s.queue
  /\ running' = s.running
  /\ locked' = s.locked

\* Slots are taken in order; a slot serves one request.
CanArrive(r) ==
  /\ req[r].pc = "idle"
  /\ \A q \in Slots : q < r => req[q].pc # "idle"

Arrival(r, method, id) ==
  [IdleReq EXCEPT !.method = method, !.id = id,
                  !.overlapped = \E q \in Slots : q # r /\ InFlight(q)]

\* let { status, priority } = req.body: the handler reads the body only here,
\* so the model draws it here.  An absent priority is priority 0 with
\* hasPriority FALSE.
BodiesOver(priorities) ==
  {b \in [status : StatusInputs, hasPriority : BOOLEAN, priority : priorities] :
     ~b.hasPriority => b.priority = 0}

Bodies == BodiesOver(PriorityInputs)

NumberBodies == BodiesOver(NumberInputs)

ReadBody(rq, b) ==
  [rq EXCEPT !.status = b.status, !.hasPriority = b.hasPriority, !.priority = b.priority]

\* PUT /api/v1/clients/:id arrives: parseInt, then validateId up to its db.get.
PutRequest(r) ==
  /\ CanArrive(r)
  /\ \E id \in IdInputs :
       LET rq == Arrival(r, "PUT", id) IN
       IF id.nan
       THEN /\ req' = [req EXCEPT ![r] = [Send(rq, "InvalidId") EXCEPT !.pc = "done"]]
            /\ UNCHANGED <<queue, running, locked>>
       ELSE /\ req' = [req EXCEPT ![r] = [rq EXCEPT !.pc = "validateId"]]
            /\ SetSched(Schedule(Sched(queue, running, locked), r, "get", FALSE))
  /\ last' = [req |-> r, kind |-> "none", ok |-> TRUE]
  /\ UNCHANGED <<clients, faults, pre, clients0>>

\* GET /api/v1/clients/:id arrives: parseInt, then validateId up to its db.get.
GetRequest(r) ==
  /\ CanArrive(r)
  /\ \E id \in IdInputs :
       LET rq == Arrival(r, "GETID", id) IN
       IF id.nan
       THEN /\ req' = [req EXCEPT ![r] = [Send(rq, "InvalidId") EXCEPT !.pc = "done"]]
            /\ UNCHANGED <<queue, running, locked>>
       ELSE /\ req' = [req EXCEPT ![r] = [rq EXCEPT !.pc = "validateId"]]
            /\ SetSched(Schedule(Sched(queue, running, locked), r, "get", FALSE))
  /\ last' = [req |-> r, kind |-> "none", ok |-> TRUE]
  /\ UNCHANGED <<clients, faults, pre, clients0>>

\* GET /api/v1/clients?status=.. arrives: the filter check, then db.all.
ListRequest(r) ==
  /\ CanArrive(r)
  /\ \E status \in StatusInputs :
       LET rq == [Arrival(r, "GET", IdleReq.id) EXCEPT !.status = status] IN
       IF Truthy(status) /\ status \notin Lanes
       THEN /\ req' = [req EXCEPT ![r] = [Send(rq, "InvalidStatus") EXCEPT !.pc = "done"]]
            /\ UNCHANGED <<queue, running, locked>>
       ELSE /\ req' = [req EXCEPT ![r] = [rq EXCEPT !.pc = "statements"]]
            /\ SetSched(Schedule(Sched(queue, running, locked), r, "list", FALSE))
  /\ last' = [req |-> r, kind |-> "none", ok |-> TRUE]
  /\ UNCHANGED <<clients, faults, pre, clients0>>

\* The PUT handler after validateId resolved valid: the status check, the
\* priority check, and the statements it hands to the connection.  The result
\* is the request and the scheduler state.
HandlerBody(rq, s, r) ==
  IF Truthy(rq.status) /\ rq.status \notin Lanes
  THEN [rq |-> [Send(rq, "InvalidStatus") EXCEPT !.pc = "done"], s |-> s]
  ELSE IF TruthyPriority(rq)
  THEN IF ~validatePriority(rq.priority)
       THEN [rq |-> [Send(rq, "InvalidPriority") EXCEPT !.pc = "done"], s |-> s]
       ELSE LET s1 == Schedule(s, r, "begin", TRUE)
                s2 == Schedule(s1, r, "shift", TRUE)
                s3 == Schedule(s2, r, "set", TRUE)
                s4 == Schedule(s3, r, "commit", TRUE)
                s5 == Schedule(s4, r, "all", FALSE)
            IN [rq |-> [rq EXCEPT !.pc = "statements"], s |-> s5]
  ELSE IF Truthy(rq.status)
  THEN LET s1 == Schedule(s, r, "status", FALSE)
           s2 == Schedule(s1, r, "all", FALSE)
       IN [rq |-> [rq EXCEPT !.pc = "statements"], s |-> s2]
  ELSE [rq |-> [rq EXCEPT !.pc = "statements"], s |-> Schedule(s, r, "all", FALSE)]

\* The store fails a statement: allowed while the fault budget lasts.
MayFail == faults < MaxFaults

\* The db.get of validateId finishes.  On an error the promise is rejected and
\* the handler never continues; without a row the request is answered 400; with
\* a row the handler continues: the GET handler with its own db.get, the PUT
\* handler with its body.
ValidateIdDoneFrom(r, bodies) ==
  /\ Stmt(r, "get") \in running
  /\ \E err \in BOOLEAN :
       /\ err => MayFail
       /\ faults' = IF err THEN faults + 1 ELSE faults
       /\ last' = [req |-> r, kind |-> "get", ok |-> ~err]
       /\ LET s == Complete(r, "get") IN
          IF err
          THEN /\ req' = [req EXCEPT ![r].pc = "hung"]
               /\ SetSched(s)
          ELSE IF ~clientExists(req[r].id.v)
          THEN /\ req' = [req EXCEPT ![r] = [Send(@, "NotFound") EXCEPT !.pc = "done"]]
               /\ SetSched(s)
          ELSE IF req[r].method = "GETID"
          THEN /\ req' = [req EXCEPT ![r].pc = "statements"]
               /\ SetSched(Schedule(s, r, "row", FALSE))
          ELSE \E b \in bodies :
                 LET h == HandlerBody(ReadBody(req[r], b), s, r) IN
                 /\ req' = [req EXCEPT ![r] = h.rq]
                 /\ SetSched(h.s)
  /\ UNCHANGED <<clients, pre, clients0>>

\* The request bodies carry whole priorities.
ValidateIdDone(r) == ValidateIdDoneFrom(r, Bodies)

\* The request bodies carry any number modelled, the fraction included.
ValidateIdDoneNumber(r) == ValidateIdDoneFrom(r, NumberBodies)

\* db.run('BEGIN TRANSACTION') finishes.
BeginDone(r) ==
  /\ Stmt(r, "begin") \in running
  /\ LET s == Complete(r, "begin") IN
       /\ SetSched(s)
       /\ req' = [req EXCEPT ![r].pc = PcIn(s, r)]
  /\ last' = [req |-> r, kind |-> "begin", ok |-> TRUE]
  /\ UNCHANGED <<clients, faults, pre, clients0>>

\* The shift UPDATE finishes; its callback answers 500 on an error.
ShiftDone(r) ==
  /\ Stmt(r, "shift") \in running
  /\ \E err \in BOOLEAN :
       /\ err => MayFail
       /\ faults' = IF err THEN faults + 1 ELSE faults
       /\ last' = [req |-> r, kind |-> "shift", ok |-> ~err]
       /\ clients' = IF err THEN clients
                     ELSE ShiftPriorities(clients, req[r].status, req[r].priority)
       /\ LET s == Complete(r, "shift")
              rq == [req[r] EXCEPT !.shift = IF err THEN "err" ELSE "ok",
                                   !.mutated = @ \/ clients' # clients,
                                   !.pc = PcIn(s, r)]
          IN /\ SetSched(s)
             /\ req' = [req EXCEPT ![r] = IF err THEN Send(rq, "DatabaseError") ELSE rq]
  /\ pre' = [pre EXCEPT ![r] = clients]
  /\ UNCHANGED clients0

\* The UPDATE of the target row finishes; its callback answers 500 on an error.
SetDone(r) ==
  /\ Stmt(r, "set") \in running
  /\ \E err \in BOOLEAN :
       /\ err => MayFail
       /\ faults' = IF err THEN faults + 1 ELSE faults
       /\ last' = [req |-> r, kind |-> "set", ok |-> ~err]
       /\ clients' = IF err THEN clients
                     ELSE SetClient(clients, req[r].status, req[r].priority, req[r].id.v)
       /\ LET s == Complete(r, "set")
              rq == [req[r] EXCEPT !.set = IF err THEN "err" ELSE "ok",
                                   !.mutated = @ \/ clients' # clients,
                                   !.pc = PcIn(s, r)]
          IN /\ SetSched(s)
             /\ req' = [req EXCEPT ![r] = IF err THEN Send(rq, "DatabaseError") ELSE rq]
  /\ UNCHANGED <<pre, clients0>>

\* db.run('COMMIT') finishes: whatever the two UPDATEs did stays.
CommitDone(r) ==
  /\ Stmt(r, "commit") \in running
  /\ LET s == Complete(r, "commit") IN
       /\ SetSched(s)
       /\ req' = [req EXCEPT ![r].pc = PcIn(s, r)]
  /\ last' = [req |-> r, kind |-> "commit", ok |-> TRUE]
  /\ UNCHANGED <<clients, faults, pre, clients0>>

\* The status-only UPDATE finishes; its callback answers 500 on an error.
StatusDone(r) ==
  /\ Stmt(r, "status") \in running
  /\ \E err \in BOOLEAN :
       /\ err => MayFail
       /\ faults' = IF err THEN faults + 1 ELSE faults
       /\ last' = [req |-> r, kind |-> "status", ok |-> ~err]
       /\ clients' = IF err THEN clients
                     ELSE SetStatus(clients, req[r].status, req[r].id.v)
       /\ LET s == Complete(r, "status")
              rq == [req[r] EXCEPT !.mutated = @ \/ clients' # clients,
                                   !.pc = PcIn(s, r)]
          IN /\ SetSched(s)
             /\ req' = [req EXCEPT ![r] = IF err THEN Send(rq, "DatabaseError") ELSE rq]
  /\ pre' = [pre EXCEPT ![r] = clients]
  /\ UNCHANGED clients0

\* A SELECT finishes (the PUT handler's read-back, a GET handler's listing or
\* row); its callback answers 200 with the rows, or 500 on an error.
SelectDone(r, kind) ==
  /\ Stmt(r, kind) \in running
  /\ \E err \in BOOLEAN :
       /\ err => MayFail
       /\ faults' = IF err THEN faults + 1 ELSE faults
       /\ last' = [req |-> r, kind |-> kind, ok |-> ~err]
       /\ LET s == Complete(r, kind)
              rq == [req[r] EXCEPT !.pc = PcIn(s, r)]
          IN /\ SetSched(s)
             /\ req' = [req EXCEPT ![r] = Send(rq, IF err THEN "DatabaseError" ELSE "OK")]
  /\ UNCHANGED <<clients, pre, clients0>>

AllDone(r) == SelectDone(r, "all")

ListDone(r) == SelectDone(r, "list")

RowDone(r) == SelectDone(r, "row")

Next ==
  \E r \in Slots :
    \/ PutRequest(r)
    \/ GetRequest(r)
    \/ ListRequest(r)
    \/ ValidateIdDone(r)
    \/ BeginDone(r)
    \/ ShiftDone(r)
    \/ SetDone(r)
    \/ CommitDone(r)
    \/ StatusDone(r)
    \/ AllDone(r)
    \/ ListDone(r)
    \/ RowDone(r)

Spec == Init /\ [][Next]_vars

\* The same program with request bodies whose priority may be a fraction.
NextNumber ==
  \E r \in Slots :
    \/ PutRequest(r)
    \/ GetRequest(r)
    \/ ListRequest(r)
    \/ ValidateIdDoneNumber(r)
    \/ BeginDone(r)
    \/ ShiftDone(r)
    \/ SetDone(r)
    \/ CommitDone(r)
    \/ StatusDone(r)
    \/ AllDone(r)
    \/ ListDone(r)
    \/ RowDone(r)

SpecNumber == Init /\ [][NextNumber]_vars

\* ---- properties ----
\* Within each lane no two clients hold the same priority.
UniqueRanks(tbl) ==
  \A i, j \in Ids :
    (i # j /\ tbl[i].status \in Lanes /\ tbl[i].status = tbl[j].status)
      => tbl[i].priority # tbl[j].priority

\* Request r is a PUT whose shift and target UPDATE both succeeded.
Applied(r) == req[r].shift = "ok" /\ req[r].set = "ok"

\* The last step was the COMMIT of a rank change of r that succeeded.
Committed(r) == last.req = r /\ last.kind = "commit" /\ Applied(r)

\* C1: starting from a table with unique priorities per lane, after a
\* successful rank-change transaction with a valid lane and a positive
\* priority, no two clients of one lane share a priority.
C1_UniqueAfterRankChange ==
  \A r \in Slots :
    (Committed(r) /\ req[r].status \in Lanes /\ UniqueRanks(pre[r]))
      => UniqueRanks(clients)

\* C1 witness: such a transaction has committed and displaced a client that
\* held the requested priority.
C1_Witness ==
  \E r \in Slots :
    /\ Committed(r) /\ req[r].status \in Lanes /\ UniqueRanks(pre[r])
    /\ \E i \in Ids \ {req[r].id.v} :
         /\ pre[r][i].status = req[r].status
         /\ pre[r][i].priority = req[r].priority
         /\ clients[i].priority = req[r].priority + Unit

\* C2: inserting client id at priority R into lane L raises every other client
\* of L whose priority was >= R by exactly 1 and leaves every other client of L
\* whose priority was < R as it was; from backlog {1:1, 2:2, 3:3}, moving
\* client 3 to priority 1 of backlog ends as 1->2, 2->3, 3->1.
C2_OrderPreserved ==
  \A r \in Slots :
    (Committed(r) /\ req[r].status \in Lanes) =>
      /\ \A i \in Ids \ {req[r].id.v} :
           pre[r][i].status = req[r].status =>
             IF pre[r][i].priority >= req[r].priority
             THEN clients[i] = [pre[r][i] EXCEPT !.priority = @ + Unit]
             ELSE clients[i] = pre[r][i]
      /\ ( /\ pre[r] = DenseTable(<<"backlog", "backlog", "backlog">>)
           /\ req[r].id.v = 3 /\ req[r].status = "backlog" /\ req[r].priority = Unit )
         => /\ clients[1] = [status |-> "backlog", priority |-> 2 * Unit]
            /\ clients[2] = [status |-> "backlog", priority |-> 3 * Unit]
            /\ clients[3] = [status |-> "backlog", priority |-> Unit]

\* C2 witness: the scenario has run: client 3 was moved to priority 1 of a
\* backlog that held 1:1, 2:2, 3:3.
C2_Witness ==
  \E r \in Slots :
    /\ Committed(r)
    /\ pre[r] = DenseTable(<<"backlog", "backlog", "backlog">>)
    /\ req[r].id.v = 3 /\ req[r].status = "backlog" /\ req[r].priority = Unit
    /\ clients[1].priority = 2 * Unit

\* C3: after an update with a priority and no status, the target client has
\* the lane it had before and the requested priority.
C3_RankOnlyKeepsLane ==
  \A r \in Slots :
    (Committed(r) /\ req[r].status = Undefined) =>
      /\ clients[req[r].id.v].status = pre[r][req[r].id.v].status
      /\ clients[req[r].id.v].priority = req[r].priority

\* C4: when the target UPDATE fails after the shift was applied, the table
\* ends as it was before the transaction.
C4_FailedSetLeavesNoShift ==
  \A r \in Slots :
    (last.req = r /\ last.kind = "commit" /\ req[r].shift = "ok" /\ req[r].set = "err")
      => clients = pre[r]

\* The PUT request r has ended and its id names a client.
EndedPut(r) ==
  /\ req[r].method = "PUT" /\ req[r].pc = "done"
  /\ ~req[r].id.nan /\ clientExists(req[r].id.v)

\* C5: an update whose priority is <= 0 is rejected as an invalid priority
\* and changes no client.
C5_NonPositiveRankRejected ==
  \A r \in Slots :
    ( /\ EndedPut(r)
      /\ req[r].hasPriority /\ req[r].priority <= 0
      /\ (req[r].status = Undefined \/ req[r].status \in Lanes) )
      => (req[r].responses = <<"InvalidPriority">> /\ ~req[r].mutated)

\* C6: an update whose status is a string other than the three lanes, the
\* empty string included, is rejected as an invalid status and changes no client.
C6_UnknownLaneRejected ==
  \A r \in Slots :
    (EndedPut(r) /\ req[r].status # Undefined /\ req[r].status \notin Lanes)
      => (req[r].responses = <<"InvalidStatus">> /\ ~req[r].mutated)

\* C7: every client's status is one of the three lanes, in every reachable state.
C7_LanesClosed == \A i \in Ids : clients[i].status \in Lanes

\* C8: an update for an id no client has is answered NotFound and changes no
\* client.
C8_MissingIdNotFound ==
  \A r \in Slots :
    (req[r].method = "PUT" /\ ~req[r].id.nan /\ req[r].id.v \notin Ids) =>
      /\ ~req[r].mutated
      /\ req[r].shift = "none" /\ req[r].set = "none"
      /\ req[r].pc = "done" => req[r].responses = <<"NotFound">>

\* C8 witness: such an update has been answered while another request was in
\* flight.
C8_Witness ==
  \E r \in Slots :
    /\ req[r].method = "PUT" /\ req[r].id.v = MissingId
    /\ req[r].pc = "done" /\ last.req = r /\ last.kind = "get"
    /\ \E q \in Slots : q # r /\ InFlight(q)

\* Request q has run its shift and not yet its target UPDATE.
Between(q) == req[q].shift # "none" /\ req[q].set = "none"

Reads == {"get", "all", "list", "row"}

\* C9: no SELECT executes between the shift and the target UPDATE of a rank
\* change, and the target UPDATE never precedes the shift.
C9_NoIntermediateRead ==
  /\ last.kind \in Reads => \A q \in Slots : ~Between(q)
  /\ \A q \in Slots : req[q].set # "none" => req[q].shift # "none"

\* C9 witness: a listing requested while a rank change was in flight has
\* executed, after that rank change displaced a client.
C9_Witness ==
  \E r, q \in Slots :
    /\ q # r /\ last.req = q /\ last.kind = "list" /\ req[q].overlapped
    /\ Applied(r) /\ req[r].mutated /\ clients # pre[r]

\* A request run alone: the shift, then the target UPDATE.
UpdateClient(tbl, rq) ==
  SetClient(ShiftPriorities(tbl, rq.status, rq.priority), rq.status, rq.priority, rq.id.v)

\* C10: the shift and target UPDATE of one rank change never execute between
\* those of another, and once two rank changes have both ended the table is
\* what running one and then the other from the initial table gives.
C10_Serialized ==
  /\ \A r \in Slots :
       (last.req = r /\ last.kind \in {"shift", "set"})
         => \A q \in Slots \ {r} : ~Between(q)
  /\ (\A r \in Slots : Applied(r) /\ req[r].pc = "done") =>
       \/ clients = UpdateClient(UpdateClient(clients0, req[1]), req[2])
       \/ clients = UpdateClient(UpdateClient(clients0, req[2]), req[1])

\* C10 witness: two overlapping rank changes in one lane have both ended, and
\* the order in which they ran matters.
C10_Witness ==
  /\ \A r \in Slots : Applied(r) /\ req[r].pc = "done"
  /\ req[2].overlapped
  /\ req[1].status = req[2].status /\ req[1].status \in Lanes
  /\ UpdateClient(UpdateClient(clients0, req[1]), req[2])
       # UpdateClient(UpdateClient(clients0, req[2]), req[1])
  /\ clients = UpdateClient(UpdateClient(clients0, req[2]), req[1])

\* Request r still has its statement `kind` waiting or executing.
Pending(r, kind) ==
  \/ Stmt(r, kind) \in running
  \/ \E k \in 1..Len(queue) : queue[k].req = r /\ queue[k].kind = kind

\* C11: the listing a successful update returns is read after the request's
\* own UPDATEs have taken effect.
C11_ReadBackAfterUpdate ==
  \A r \in Slots :
    (faults = 0 /\ last.req = r /\ last.kind = "all" /\ last.ok)
      => \A kind \in {"shift", "set", "status"} : ~Pending(r, kind)

\* C12: in every state reached by successful updates of any shape from a
\* table with unique priorities per lane, priorities are unique per lane.
C12_AlwaysUnique ==
  (faults = 0 /\ \A r \in Slots : ~Between(r)) => UniqueRanks(clients)

\* C13: an update with a status and no priority changes the target client's
\* status and nothing else: its priority and every other client stay.
C13_LaneOnlyFrame ==
  \A r \in Slots :
    (last.req = r /\ last.kind = "status" /\ last.ok /\ ~req[r].hasPriority)
      => clients = [pre[r] EXCEPT ![req[r].id.v] =
                      [status |-> req[r].status, priority |-> pre[r][req[r].id.v].priority]]

\* C13 witness: a status-only update has moved a client to another lane, where
\* its priority is already taken.
C13_Witness ==
  \E r \in Slots :
    /\ last.req = r /\ last.kind = "status" /\ last.ok /\ ~req[r].hasPriority
    /\ req[r].mutated
    /\ \E i \in Ids \ {req[r].id.v} : clients[i] = clients[req[r].id.v]

\* Request 2 repeats request 1 (same id, status and priority, both applied)
\* and nothing was written between them.
Retry ==
  /\ Applied(1) /\ Applied(2)
  /\ req[2].id = req[1].id /\ req[2].status = req[1].status
  /\ req[2].priority = req[1].priority
  /\ req[1].status \in Lanes
  /\ pre[2] = UpdateClient(pre[1], req[1])

\* C14 as claimed: running the same rank change a second time leaves every
\* client's status and priority as they were after the first run.
C14_RetryIdempotent ==
  (Committed(2) /\ Retry) => clients = pre[2]

\* C14 as amended: a second run of the same rank change leaves the target at
\* the requested lane and priority and every client outside the lane or below
\* the priority as after the first run, and raises every other client of the
\* lane at or above the priority by 1 once more.
C14_RetryShiftsAgain ==
  (Committed(2) /\ Retry) =>
    \A i \in Ids :
      clients[i] =
        IF i # req[2].id.v /\ pre[2][i].status = req[2].status
                           /\ pre[2][i].priority >= req[2].priority
        THEN [pre[2][i] EXCEPT !.priority = @ + Unit]
        ELSE pre[2][i]

\* C14 witness: the same rank change ran twice and the second run changed the
\* table.
C14_Witness == Committed(2) /\ Retry /\ clients # pre[2]

\* C15: a successful rank change sets the target's priority to exactly the
\* requested one, unclamped, also when the target sat in the lane at or above
\* that priority and was itself shifted.
C15_ExactRank ==
  \A r \in Slots :
    (Committed(r) /\ req[r].status \in Lanes)
      => clients[req[r].id.v] = [status |-> req[r].status, priority |-> req[r].priority]

\* C15 witness: the target sat in the lane at or above the requested priority,
\* and the requested priority is more than one past every other client's in
\* the lane, so a gap is left.
C15_Witness ==
  \E r \in Slots :
    /\ Committed(r) /\ req[r].status \in Lanes
    /\ pre[r][req[r].id.v].status = req[r].status
    /\ pre[r][req[r].id.v].priority >= req[r].priority
    /\ \A i \in Ids \ {req[r].id.v} :
         pre[r][i].status = req[r].status => pre[r][i].priority + Unit < req[r].priority

\* C16: a rank change changes only the target and the clients of the target
\* lane at or above the requested priority; every other client, the ones of
\* the lane the target leaves included, keeps status and priority, and the
\* set of ids stays the same.
C16_RankChangeFrame ==
  \A r \in Slots :
    Committed(r) =>
      /\ DOMAIN clients = Ids
      /\ \A i \in Ids \ {req[r].id.v} :
           ~(SqlEq(pre[r][i].status, Bind(req[r].status))
               /\ pre[r][i].priority >= req[r].priority)
             => clients[i] = pre[r][i]

\* C16 witness: the target left a lane in which a client ranked after it
\* stays where it was, behind the gap.
C16_Witness ==
  \E r \in Slots :
    /\ Committed(r) /\ req[r].status \in Lanes
    /\ pre[r][req[r].id.v].status # req[r].status
    /\ \E i \in Ids \ {req[r].id.v} :
         /\ pre[r][i].status = pre[r][req[r].id.v].status
         /\ pre[r][i].priority > pre[r][req[r].id.v].priority
         /\ clients[i] = pre[r][i]

\* Both requests are rank changes that were applied and have ended, for
\* different clients and different lanes.
DisjointPair ==
  /\ \A r \in Slots : Applied(r) /\ req[r].pc = "done" /\ req[r].status \in Lanes
  /\ req[1].id # req[2].id
  /\ req[1].status # req[2].status

\* C18: two rank changes for different clients and different lanes commute:
\* either order gives the same table, which is the table they leave.
C18_DisjointCommute ==
  DisjointPair =>
    /\ clients = UpdateClient(UpdateClient(clients0, req[1]), req[2])
    /\ clients = UpdateClient(UpdateClient(clients0, req[2]), req[1])

\* C18 witness: two such overlapping rank changes have ended, and the target of
\* the first started in the second's lane at or above its priority.
C18_Witness ==
  /\ DisjointPair /\ req[2].overlapped
  /\ clients0[req[1].id.v].status = req[2].status
  /\ clients0[req[1].id.v].priority >= req[2].priority

\* C19: an update calls res.send at most once: after a 500 for a failed
\* statement no second 500 and no 200 listing follows.
C19_AtMostOneResponse ==
  \A r \in Slots : req[r].method = "PUT" => Len(req[r].responses) <= 1

\* C20: every getRecord and updateRecord request gets a response: once its
\* handler has nothing left to run, a response has been sent, also when the
\* store failed the lookup of validateId.
C20_EveryRequestAnswered ==
  \A r \in Slots :
    (req[r].method \in {"PUT", "GETID"} /\ req[r].pc \in {"done", "hung"})
      => req[r].responses # <<>>

\* A priority that is a whole number >= 1.
PositiveInteger(priority) == priority >= Unit /\ priority % Unit = 0

\* C17: every client's priority is a positive integer, in every state reached
\* by updates, accepted or rejected, that the store did not fail.
C17_RanksPositiveIntegers ==
  faults = 0 => \A i \in Ids : PositiveInteger(clients[i].priority)

====
